---- MODULE Spec2Model ----
(***************************************************************************)
(* A model of deploy/deactivate_site.py: the site deactivation script.    *)
(*                                                                         *)
(* Text is a sequence of one-character strings.  A config file is its raw  *)
(* content; reading it splits the content after every line feed, as the    *)
(* iteration over the open file does.  The directory tree holding the      *)
(* sites and the archive is a function from the paths that exist to a     *)
(* label naming what the directory is.                                     *)
(***************************************************************************)
EXTENDS Integers, Sequences, FiniteSets, TLC

VARIABLES
    args,             \* the parsed command line
    files,            \* config index -> content, or Missing
    backups,          \* <<config index, timestamp>> -> content of the .bak file
    fs,               \* path -> label, for every directory that exists
    now,              \* the wall clock, in seconds
    pc,               \* where the run is
    idx,              \* loop position (registry entry / analysis)
    tokens,           \* normalize_tokens' result
    config_analyses,  \* the FileAnalysis of each config file that exists
    blocking_errors,  \* the errors collected so far
    archive_target,   \* choose_archive_target's result
    stamp,            \* the date stamp of the apply run
    updated_lines,    \* comment_matching_lines' rewritten lines, before the write
    rc,               \* main's exit status, or NoRc
    pre               \* what was on disk / returned before (for the claims)

vars == <<args, files, backups, fs, now, pc, idx, tokens, config_analyses,
          blocking_errors, archive_target, stamp, updated_lines, rc, pre>>

----------------------------------------------------------------------------
(* Bounds of the model. *)

MaxClock == 1        \* the clock runs over 0..MaxClock
SecondsPerDay == 2   \* seconds in a (model) day: the date changes every so many ticks
MaxExtra == 2        \* --token options given (token specification)
MaxTokLen == 2       \* characters in a site name or token (token specification)
MaxLines == 3        \* lines in a scanned file (scanner specification)

NumConfigs == 3      \* the entries of CONFIG_PATHS

\* a config file that does not exist; main before it has returned
Missing == <<"(missing)">>
NoRc == -1
NoPath == << <<"?">> >>

----------------------------------------------------------------------------
(* str methods *)

Whitespace == {" ", "\t", "\n", "\r"}

RECURSIVE lstrip(_)
lstrip(s) == IF s = <<>> \/ s[1] \notin Whitespace THEN s ELSE lstrip(Tail(s))

RECURSIVE rstrip(_)
rstrip(s) ==
    IF s = <<>> \/ s[Len(s)] \notin Whitespace THEN s
    ELSE rstrip(SubSeq(s, 1, Len(s) - 1))

strip(s) == lstrip(rstrip(s))

\* line.rstrip("\n")
RECURSIVE rstrip_newline(_)
rstrip_newline(s) ==
    IF s = <<>> \/ s[Len(s)] # "\n" THEN s
    ELSE rstrip_newline(SubSeq(s, 1, Len(s) - 1))

startswith(s, p) == Len(s) >= Len(p) /\ SubSeq(s, 1, Len(p)) = p

\* token in line_text
Contains(token, text) ==
    \E i \in 0..(Len(text) - Len(token)) : SubSeq(text, i + 1, i + Len(token)) = token

Range(s) == {s[i] : i \in 1..Len(s)}

\* The lines a text-mode iteration over the file yields: each ends with its
\* line feed, but for a last line that has none.
RECURSIVE ReadLinesFrom(_, _)
ReadLinesFrom(content, cur) ==
    IF content = <<>> THEN (IF cur = <<>> THEN <<>> ELSE <<cur>>)
    ELSE IF content[1] = "\n"
         THEN <<Append(cur, "\n")>> \o ReadLinesFrom(Tail(content), <<>>)
         ELSE ReadLinesFrom(Tail(content), Append(cur, content[1]))

ReadLines(content) == ReadLinesFrom(content, <<>>)

\* handle.writelines(lines)
RECURSIVE WriteLines(_)
WriteLines(lines) == IF lines = <<>> THEN <<>> ELSE Head(lines) \o WriteLines(Tail(lines))

\* strftime of a number's decimal digits
Digit(n) == <<"0", "1", "2", "3", "4", "5", "6", "7", "8", "9">>[n + 1]

RECURSIVE Decimal(_)
Decimal(n) == IF n < 10 THEN <<Digit(n)>> ELSE Append(Decimal(n \div 10), Digit(n % 10))

\* datetime.now().strftime('%Y%m%d%H%M%S'): one text per second
TimeStamp(t) == Decimal(t)

\* datetime.now().strftime('%Y-%m-%d'): one text per day
DateStamp(t) == <<"d">> \o Decimal(t \div SecondsPerDay)

----------------------------------------------------------------------------
(* normalize_tokens *)

\* The keys of OrderedDict((k, None) for k in keys): first occurrences, in order.
RECURSIVE OrderedDictKeys(_, _)
OrderedDictKeys(keys, acc) ==
    IF keys = <<>> THEN acc
    ELSE OrderedDictKeys(Tail(keys),
                         IF Head(keys) \in Range(acc) THEN acc ELSE Append(acc, Head(keys)))

\* normalize_tokens stripping after the duplicates are dropped
normalize_tokens_strip_late(site, extra_tokens) ==
    LET keys == OrderedDictKeys(<<site>> \o extra_tokens, <<>>)
        stripped == [i \in 1..Len(keys) |-> strip(keys[i])]
    IN SelectSeq(stripped, LAMBDA token : token # <<>>)

normalize_tokens(site, extra_tokens) ==
    LET all == <<site>> \o extra_tokens
        stripped == [i \in 1..Len(all) |-> strip(all[i])]
    IN SelectSeq(OrderedDictKeys(stripped, <<>>), LAMBDA token : token # <<>>)

----------------------------------------------------------------------------
(* analyze_config_file *)

AnyTokenIn(toks, line_text) == \E i \in 1..Len(toks) : Contains(toks[i], line_text)

\* IsCommentLine without the lstrip
IsCommentLineUnstripped(text) == startswith(text, <<"#">>)

IsCommentLine(text) == startswith(lstrip(text), <<"#">>)

analyze_config_file(content, toks) ==
    LET lines == ReadLines(content)
        all == [n \in 1..Len(lines) |->
                   [line_number |-> n, line_text |-> rstrip_newline(lines[n])]]
        matching == SelectSeq(all, LAMBDA m : AnyTokenIn(toks, m.line_text))
    IN [active_matches |-> SelectSeq(matching, LAMBDA m : ~IsCommentLine(m.line_text)),
        commented_matches |-> SelectSeq(matching, LAMBDA m : IsCommentLine(m.line_text))]

----------------------------------------------------------------------------
(* comment_matching_lines *)

Marker == <<"#", " ", "d", "e", "a", "c", "t", "i", "v", "a", "t", "e", "d", " ">>

\* CommentPrefix without the comment character
CommentPrefixNoHash(site, date) == Tail(Marker) \o site \o <<" ">> \o date \o <<" ">>

CommentPrefix(site, date) == Marker \o site \o <<" ">> \o date \o <<" ">>

\* updated_lines, lines 128-135
UpdatedLines(content, matches, site, date) ==
    LET lines == ReadLines(content)
        target_lines == {matches[i].line_number : i \in 1..Len(matches)}
    IN [n \in 1..Len(lines) |->
           IF n \in target_lines /\ ~IsCommentLine(lines[n])
           THEN CommentPrefix(site, date) \o lines[n]
           ELSE lines[n]]

----------------------------------------------------------------------------
(* Paths and the directory tree *)

Join(path, name) == IF name = <<>> THEN path ELSE Append(path, name)

Parent(path) == IF path = <<>> THEN <<>> ELSE SubSeq(path, 1, Len(path) - 1)

Basename(path) == IF path = <<>> THEN <<>> ELSE path[Len(path)]

IsPrefix(p, q) == Len(p) <= Len(q) /\ SubSeq(q, 1, Len(p)) = p

Ancestors(path) == {SubSeq(path, 1, n) : n \in 1..Len(path)}

Exists(tree, path) == path \in DOMAIN tree

\* sites_root / args.site
SourceSiteDir(a) == Join(a.sites_root, a.site)

choose_archive_target(tree, archive_dir, site, t) ==
    LET base_target == Join(archive_dir, site)
    IN IF ~Exists(tree, base_target) THEN base_target
       ELSE Join(archive_dir, site \o <<"-">> \o TimeStamp(t))

\* archive_dir.mkdir(parents=True, exist_ok=True)
Mkdir(tree, dir) ==
    [p \in DOMAIN tree \cup Ancestors(dir) |-> IF p \in DOMAIN tree THEN tree[p] ELSE "dir"]

\* shutil.move(src, dst): where the source lands, an existing directory
\* receiving it under the source's own name
RealDst(tree, src, dst) == IF Exists(tree, dst) THEN Join(dst, Basename(src)) ELSE dst

\* the cases in which shutil.move raises shutil.Error
MoveFails(tree, src, dst) ==
    /\ src # dst
    /\ \/ Exists(tree, dst) /\ Exists(tree, RealDst(tree, src, dst))
       \/ IsPrefix(src, RealDst(tree, src, dst))

\* os.rename(src, real_dst): the directory and all below it change place
Renamed(tree, src, real_dst) ==
    LET moved(p) == IF IsPrefix(src, p)
                    THEN real_dst \o SubSeq(p, Len(src) + 1, Len(p))
                    ELSE p
        keep == {p \in DOMAIN tree : ~IsPrefix(src, p)}
        gone == {p \in DOMAIN tree : IsPrefix(src, p)}
    IN [q \in keep \cup {moved(p) : p \in gone} |->
           IF q \in keep THEN tree[q]
           ELSE tree[CHOOSE p \in gone : moved(p) = q]]

Moved(tree, src, dst) ==
    IF src = dst THEN tree ELSE Renamed(tree, src, RealDst(tree, src, dst))

----------------------------------------------------------------------------
(* The inputs of a run of main *)

SitesDir == << <<"s">> >>
ArchiveDir == << <<"s">>, <<"r">> >>

SiteChoices == {<<>>, <<"a">>, <<"r">>}
ExtraChoices == {<<>>, << <<"b">> >>}

\* "b": matches only an extra token; the other: two active lines, a commented
\* one, a line without a match, and no line feed at the end
MainContents ==
    { <<"b", "\n">>,
      <<"a", "\n", " ", "#", "a", "\n", "c", "\n", "r", "a">> }

ArgChoices ==
    [site : SiteChoices, tokens : ExtraChoices, apply : BOOLEAN,
     allow_missing : BOOLEAN, sites_root : {SitesDir, ArchiveDir},
     archive_dir : {ArchiveDir}]

\* The directory tree before the run: the sites root exists; the site
\* directory, the archive, the preferred target and timestamped targets may.
TreeChoices(a) ==
    LET source == SourceSiteDir(a)
        base == Join(a.archive_dir, a.site)
        suffixed(t) == Join(a.archive_dir, a.site \o <<"-">> \o TimeStamp(t))
        tree(E) == [p \in E |-> IF p = source THEN "site" ELSE "dir"]
    IN { tree(Ancestors(a.sites_root)
              \cup (IF srcExists THEN Ancestors(source) ELSE {})
              \cup (IF arch # "absent" THEN Ancestors(a.archive_dir) ELSE {})
              \cup (IF arch = "base" THEN Ancestors(base) ELSE {})
              \cup {suffixed(t) : t \in stamps}) :
         srcExists \in BOOLEAN,
         arch \in {"absent", "empty", "base"},
         stamps \in SUBSET (0..MaxClock) }

Idle ==
    /\ idx = 0
    /\ tokens = <<>>
    /\ config_analyses = <<>>
    /\ blocking_errors = <<>>
    /\ archive_target = NoPath
    /\ stamp = <<>>
    /\ updated_lines = <<>>
    /\ rc = NoRc
    /\ backups = <<>>
    /\ now = 0

Init ==
    /\ args \in ArgChoices
    /\ files \in [1..NumConfigs -> {Missing} \cup MainContents]
    /\ fs \in TreeChoices(args)
    /\ pc = "start"
    /\ pre = [files |-> files, fs |-> fs]
    /\ Idle

----------------------------------------------------------------------------
(* main *)

\* the clock advances between two readings of it
Tick ==
    /\ pc \in {"choose", "decide", "comment"}
    /\ now < MaxClock
    /\ now' = now + 1
    /\ UNCHANGED <<args, files, backups, fs, pc, idx, tokens, config_analyses,
                   blocking_errors, archive_target, stamp, updated_lines, rc, pre>>

\* line 157
Normalize ==
    /\ pc = "start"
    /\ tokens' = normalize_tokens(args.site, args.tokens)
    /\ idx' = 1
    /\ pc' = "scan"
    /\ UNCHANGED <<args, files, backups, fs, now, config_analyses, blocking_errors,
                   archive_target, stamp, updated_lines, rc, pre>>

Error(kind, config) == [kind |-> kind, config |-> config]

\* ScanConfig leaving the loop at the first missing file (break for continue)
ScanConfigFailFast ==
    /\ pc = "scan"
    /\ idx <= NumConfigs
    /\ IF files[idx] = Missing
       THEN /\ blocking_errors' = Append(blocking_errors, Error("missing_config", idx))
            /\ UNCHANGED config_analyses
            /\ pc' = "choose"
       ELSE LET analysis == analyze_config_file(files[idx], tokens)
            IN /\ config_analyses' =
                      Append(config_analyses, [config |-> idx, analysis |-> analysis])
               /\ blocking_errors' =
                      IF args.apply /\ ~args.allow_missing /\ analysis.active_matches = <<>>
                      THEN Append(blocking_errors, Error("no_active", idx))
                      ELSE blocking_errors
               /\ pc' = IF idx = NumConfigs THEN "choose" ELSE "scan"
    /\ idx' = idx + 1
    /\ UNCHANGED <<args, files, backups, fs, now, tokens, archive_target, stamp,
                   updated_lines, rc, pre>>

\* one turn of the loop over CONFIG_PATHS, lines 163-174
ScanConfig ==
    /\ pc = "scan"
    /\ idx <= NumConfigs
    /\ IF files[idx] = Missing
       THEN /\ blocking_errors' = Append(blocking_errors, Error("missing_config", idx))
            /\ UNCHANGED config_analyses
       ELSE LET analysis == analyze_config_file(files[idx], tokens)
            IN /\ config_analyses' =
                      Append(config_analyses, [config |-> idx, analysis |-> analysis])
               /\ blocking_errors' =
                      IF args.apply /\ ~args.allow_missing /\ analysis.active_matches = <<>>
                      THEN Append(blocking_errors, Error("no_active", idx))
                      ELSE blocking_errors
    /\ idx' = idx + 1
    /\ pc' = IF idx = NumConfigs THEN "choose" ELSE "scan"
    /\ UNCHANGED <<args, files, backups, fs, now, tokens, archive_target, stamp,
                   updated_lines, rc, pre>>

\* lines 176-179
ChooseTarget ==
    /\ pc = "choose"
    /\ archive_target' = choose_archive_target(fs, args.archive_dir, args.site, now)
    /\ pc' = "check"
    /\ UNCHANGED <<args, files, backups, fs, now, idx, tokens, config_analyses,
                   blocking_errors, stamp, updated_lines, rc, pre>>

\* lines 185-188
CheckSite ==
    /\ pc = "check"
    /\ blocking_errors' =
          IF ~Exists(fs, SourceSiteDir(args))
          THEN Append(blocking_errors, Error("site_missing", 0))
          ELSE IF Parent(SourceSiteDir(args)) = args.archive_dir
               THEN Append(blocking_errors, Error("already_archived", 0))
               ELSE blocking_errors
    /\ pc' = "decide"
    /\ UNCHANGED <<args, files, backups, fs, now, idx, tokens, config_analyses,
                   archive_target, stamp, updated_lines, rc, pre>>

\* lines 190-194
Blocked ==
    /\ pc = "decide"
    /\ blocking_errors # <<>>
    /\ rc' = 2
    /\ pc' = "done"
    /\ UNCHANGED <<args, files, backups, fs, now, idx, tokens, config_analyses,
                   blocking_errors, archive_target, stamp, updated_lines, pre>>

\* lines 196-198
DryRunDone ==
    /\ pc = "decide"
    /\ blocking_errors = <<>>
    /\ ~args.apply
    /\ rc' = 0
    /\ pc' = "done"
    /\ UNCHANGED <<args, files, backups, fs, now, idx, tokens, config_analyses,
                   blocking_errors, archive_target, stamp, updated_lines, pre>>

\* StartApply without the return of lines 190-194
StartApplyDespiteErrors ==
    /\ pc = "decide"
    /\ args.apply
    /\ stamp' = DateStamp(now)
    /\ idx' = 1
    /\ pc' = "comment"
    /\ UNCHANGED <<args, files, backups, fs, now, tokens, config_analyses,
                   blocking_errors, archive_target, updated_lines, rc, pre>>

\* StartApply without the return of lines 196-198
StartApplyInDryRun ==
    /\ pc = "decide"
    /\ blocking_errors = <<>>
    /\ stamp' = DateStamp(now)
    /\ idx' = 1
    /\ pc' = "comment"
    /\ UNCHANGED <<args, files, backups, fs, now, tokens, config_analyses,
                   blocking_errors, archive_target, updated_lines, rc, pre>>

\* lines 200-201
StartApply ==
    /\ pc = "decide"
    /\ blocking_errors = <<>>
    /\ args.apply
    /\ stamp' = DateStamp(now)
    /\ idx' = 1
    /\ pc' = "comment"
    /\ UNCHANGED <<args, files, backups, fs, now, tokens, config_analyses,
                   blocking_errors, archive_target, updated_lines, rc, pre>>

\* comment_matching_lines with no match, lines 125-126: nothing is done
CommentNothing ==
    /\ pc = "comment"
    /\ idx <= Len(config_analyses)
    /\ config_analyses[idx].analysis.active_matches = <<>>
    /\ idx' = idx + 1
    /\ UNCHANGED <<args, files, backups, fs, now, pc, tokens, config_analyses,
                   blocking_errors, archive_target, stamp, updated_lines, rc, pre>>

\* comment_matching_lines, lines 128-138: the rewritten lines are computed and
\* the file is copied to its backup
CommentBackup ==
    /\ pc = "comment"
    /\ idx <= Len(config_analyses)
    /\ config_analyses[idx].analysis.active_matches # <<>>
    /\ LET config == config_analyses[idx].config
           key == <<config, TimeStamp(now)>>
       IN /\ updated_lines' = UpdatedLines(files[config],
                                           config_analyses[idx].analysis.active_matches,
                                           args.site, stamp)
          /\ backups' = [k \in DOMAIN backups \cup {key} |->
                            IF k = key THEN files[config] ELSE backups[k]]
    /\ pc' = "write"
    /\ UNCHANGED <<args, files, fs, now, idx, tokens, config_analyses,
                   blocking_errors, archive_target, stamp, rc, pre>>

\* comment_matching_lines, lines 139-141: the file is overwritten
CommentWrite ==
    /\ pc = "write"
    /\ files' = [files EXCEPT ![config_analyses[idx].config] = WriteLines(updated_lines)]
    /\ updated_lines' = <<>>
    /\ idx' = idx + 1
    /\ pc' = "comment"
    /\ UNCHANGED <<args, backups, fs, now, tokens, config_analyses,
                   blocking_errors, archive_target, stamp, rc, pre>>

\* MakeArchiveDir reached before the loop of lines 202-207 has ended
MakeArchiveDirEarly ==
    /\ pc = "comment"
    /\ fs' = Mkdir(fs, args.archive_dir)
    /\ pc' = "move"
    /\ UNCHANGED <<args, files, backups, now, idx, tokens, config_analyses,
                   blocking_errors, archive_target, stamp, updated_lines, rc, pre>>

\* line 209
MakeArchiveDir ==
    /\ pc = "comment"
    /\ idx > Len(config_analyses)
    /\ fs' = Mkdir(fs, args.archive_dir)
    /\ pc' = "move"
    /\ UNCHANGED <<args, files, backups, now, idx, tokens, config_analyses,
                   blocking_errors, archive_target, stamp, updated_lines, rc, pre>>

\* lines 210-213
MoveSite ==
    /\ pc = "move"
    /\ ~MoveFails(fs, SourceSiteDir(args), archive_target)
    /\ fs' = Moved(fs, SourceSiteDir(args), archive_target)
    /\ rc' = 0
    /\ pc' = "done"
    /\ UNCHANGED <<args, files, backups, now, idx, tokens, config_analyses,
                   blocking_errors, archive_target, stamp, updated_lines, pre>>

\* line 210: shutil.move raises, and the run ends with a traceback
MoveRaises ==
    /\ pc = "move"
    /\ MoveFails(fs, SourceSiteDir(args), archive_target)
    /\ pc' = "raised"
    /\ UNCHANGED <<args, files, backups, fs, now, idx, tokens, config_analyses,
                   blocking_errors, archive_target, stamp, updated_lines, rc, pre>>

Next ==
    \/ Tick
    \/ Normalize
    \/ ScanConfig
    \/ ChooseTarget
    \/ CheckSite
    \/ Blocked
    \/ DryRunDone
    \/ StartApply
    \/ CommentNothing
    \/ CommentBackup
    \/ CommentWrite
    \/ MakeArchiveDir
    \/ MoveSite
    \/ MoveRaises

Spec == Init /\ [][Next]_vars

----------------------------------------------------------------------------
(* normalize_tokens on its own: called once on the command line's site and
   tokens, then again on its own result *)

TokenAlphabet == {"a", " "}

\* the texts of at most n characters
RECURSIVE Texts(_, _)
Texts(alphabet, n) ==
    IF n = 0 THEN {<<>>}
    ELSE LET shorter == Texts(alphabet, n - 1)
         IN shorter \cup {Append(t, c) : t \in shorter, c \in alphabet}

\* the lists of at most n elements of S
RECURSIVE Lists(_, _)
Lists(S, n) ==
    IF n = 0 THEN {<<>>}
    ELSE LET shorter == Lists(S, n - 1)
         IN shorter \cup {Append(l, x) : l \in shorter, x \in S}

NoFiles == [i \in 1..NumConfigs |-> Missing]

InitTokens ==
    /\ args \in [site : Texts(TokenAlphabet, MaxTokLen),
                 tokens : Lists(Texts(TokenAlphabet, MaxTokLen), MaxExtra),
                 apply : {FALSE}, allow_missing : {FALSE},
                 sites_root : {SitesDir}, archive_dir : {ArchiveDir}]
    /\ files = NoFiles
    /\ fs = <<>>
    /\ pc = "tokens"
    /\ pre = <<>>
    /\ Idle

NormalizeOnce ==
    /\ pc = "tokens"
    /\ tokens' = normalize_tokens(args.site, args.tokens)
    /\ pc' = "normalized"
    /\ UNCHANGED <<args, files, backups, fs, now, idx, config_analyses, blocking_errors,
                   archive_target, stamp, updated_lines, rc, pre>>

\* the result's first element as site, the rest as extra tokens
NormalizeAgain ==
    /\ pc = "normalized"
    /\ tokens # <<>>
    /\ pre' = tokens
    /\ tokens' = normalize_tokens(Head(tokens), Tail(tokens))
    /\ pc' = "renormalized"
    /\ UNCHANGED <<args, files, backups, fs, now, idx, config_analyses, blocking_errors,
                   archive_target, stamp, updated_lines, rc>>

NextTokens == NormalizeOnce \/ NormalizeAgain

SpecTokens == InitTokens /\ [][NextTokens]_vars

----------------------------------------------------------------------------
(* analyze_config_file and comment_matching_lines on one file: scanned,
   commented, scanned again and commented again *)

ScanLineTexts ==
    { <<>>, <<"a">>, <<"#", "a">>, <<" ", "#", "a">>, <<"b", " ", "a", "#">>, <<" ", "b">> }

\* the files of at most n lines, the last with or without its line feed
ScanContents(n) ==
    LET whole == {WriteLines([i \in 1..Len(l) |-> Append(l[i], "\n")]) :
                     l \in Lists(ScanLineTexts, n)}
    IN whole \cup {SubSeq(c, 1, Len(c) - 1) : c \in whole \ {<<>>}}

ScanSites == {<<>>, <<"a">>}
ScanExtras == {<<>>, << <<"b">> >>, << <<"#">>, <<"a">> >>}

\* comment_matching_lines as a whole: the content and the backups it leaves
comment_matching_lines(content, bk, config, matches, site, date, t) ==
    IF matches = <<>> THEN [content |-> content, backups |-> bk]
    ELSE LET key == <<config, TimeStamp(t)>>
         IN [content |-> WriteLines(UpdatedLines(content, matches, site, date)),
             backups |-> [k \in DOMAIN bk \cup {key} |->
                             IF k = key THEN content ELSE bk[k]]]

InitScan ==
    /\ args \in [site : ScanSites, tokens : ScanExtras,
                 apply : {TRUE}, allow_missing : {TRUE},
                 sites_root : {SitesDir}, archive_dir : {ArchiveDir}]
    /\ \E content \in ScanContents(MaxLines) : files = [NoFiles EXCEPT ![1] = content]
    /\ fs = <<>>
    /\ pc = "scan1"
    /\ pre = <<>>
    /\ idx = 1
    /\ tokens = normalize_tokens(args.site, args.tokens)
    /\ config_analyses = <<>>
    /\ blocking_errors = <<>>
    /\ archive_target = NoPath
    /\ stamp = <<>>
    /\ updated_lines = <<>>
    /\ rc = NoRc
    /\ backups = <<>>
    /\ now = 0

Rescan(from, to) ==
    /\ pc = from
    /\ config_analyses' = <<[config |-> idx, analysis |-> analyze_config_file(files[idx], tokens)]>>
    /\ pc' = to
    /\ UNCHANGED <<args, files, backups, fs, now, idx, tokens, blocking_errors,
                   archive_target, stamp, updated_lines, rc, pre>>

\* the clock may have advanced by the time the file is commented
Recomment(from, to) ==
    /\ pc = from
    /\ \E t \in now..MaxClock :
          LET done == comment_matching_lines(files[idx], backups, idx,
                                             config_analyses[1].analysis.active_matches,
                                             args.site, DateStamp(t), t)
          IN /\ now' = t
             /\ stamp' = DateStamp(t)
             /\ files' = [files EXCEPT ![idx] = done.content]
             /\ backups' = done.backups
    /\ pre' = [files |-> files, backups |-> backups, analysis |-> config_analyses[1].analysis]
    /\ pc' = to
    /\ UNCHANGED <<args, fs, idx, tokens, config_analyses, blocking_errors,
                   archive_target, updated_lines, rc>>

ScanFirst == Rescan("scan1", "comment1")
CommentFirst == Recomment("comment1", "scan2")
ScanSecond == Rescan("scan2", "comment2")
CommentSecond == Recomment("comment2", "end")

NextScan == ScanFirst \/ CommentFirst \/ ScanSecond \/ CommentSecond

SpecScan == InitScan /\ [][NextScan]_vars

----------------------------------------------------------------------------
(* What the claims speak of, in terms of the run's input *)

Source == SourceSiteDir(args)

\* the scan of config file i as it was before the run
PreAnalysis(i) ==
    analyze_config_file(pre.files[i], normalize_tokens(args.site, args.tokens))

HadActive(i) == pre.files[i] # Missing /\ PreAnalysis(i).active_matches # <<>>

\* the preconditions that fail on the run's input, as errors
FailedPreconditions ==
    {Error("missing_config", i) : i \in {j \in 1..NumConfigs : pre.files[j] = Missing}}
    \cup {Error("no_active", i) :
             i \in {j \in 1..NumConfigs : /\ args.apply /\ ~args.allow_missing
                                          /\ pre.files[j] # Missing /\ ~HadActive(j)}}
    \cup (IF ~Exists(pre.fs, Source) THEN {Error("site_missing", 0)} ELSE {})
    \cup (IF Exists(pre.fs, Source) /\ Parent(Source) = args.archive_dir
          THEN {Error("already_archived", 0)} ELSE {})

NothingMutated == files = pre.files /\ fs = pre.fs /\ backups = <<>>

\* config file i reads as its old lines, the active matches behind the marker
Commented(i) ==
    LET old == ReadLines(pre.files[i])
        new == ReadLines(files[i])
        hit == {PreAnalysis(i).active_matches[k].line_number :
                   k \in 1..Len(PreAnalysis(i).active_matches)}
    IN /\ Len(new) = Len(old)
       /\ \A n \in 1..Len(old) :
             new[n] = IF n \in hit THEN CommentPrefix(args.site, stamp) \o old[n] ELSE old[n]

HasBackupOf(i) == \E k \in DOMAIN backups : k[1] = i /\ backups[k] = pre.files[i]

\* the site name names a directory of its own below the sites root
PlainSite == args.site # <<>> /\ ~IsPrefix(Source, args.archive_dir)

SiteMoved == Exists(pre.fs, Source) /\ ~(Exists(fs, Source) /\ fs[Source] = "site")

----------------------------------------------------------------------------
(* Claims on main *)

\* C1: an apply run with at least one blocking error (a missing config file, a
\* config file without an active match while allow-missing is off, a missing
\* site directory, a site directory directly under the archive) returns 2 and
\* mutates nothing: no config file rewritten, no backup, no archive directory
\* created, the site directory not moved.
C1_BlockedApplyMutatesNothing ==
    (args.apply /\ FailedPreconditions # {}) =>
        /\ NothingMutated
        /\ pc \notin {"comment", "write", "move", "raised"}
        /\ (pc = "done" => rc = 2)

\* an apply run that could have edited a file ends blocked by a missing site directory
C1_Witness ==
    /\ pc = "done" /\ rc = 2 /\ args.apply
    /\ ~Exists(pre.fs, Source)
    /\ \A i \in 1..NumConfigs : HadActive(i)
    /\ NothingMutated

\* C2: a dry run mutates nothing, whatever the input and the disk, with or
\* without blocking errors, and returns 0 when there is no blocking error.
C2_DryRunMutatesNothing ==
    ~args.apply =>
        /\ NothingMutated
        /\ pc \notin {"comment", "write", "move", "raised"}
        /\ (pc = "done" => rc = IF FailedPreconditions = {} THEN 0 ELSE 2)

\* a dry run over files with active matches and an existing site directory returns 0
C2_Witness ==
    /\ pc = "done" /\ rc = 0 /\ ~args.apply
    /\ \A i \in 1..NumConfigs : HadActive(i)
    /\ Exists(fs, Source)
    /\ NothingMutated

\* C3: an apply run without blocking error returns 0, and on return every
\* active match is rewritten behind the marker, every file that had an active
\* match has a backup of its old content, the site directory is gone from
\* <sites_root>/<site> and is at the computed archive target, which is
\* <archive_dir>/<site> when that was free.  (Stated for a site name that
\* names a directory of its own: not empty, and not holding the archive.)
C3_ApplyRunPostcondition ==
    (PlainSite /\ args.apply /\ FailedPreconditions = {} /\ pc \in {"done", "raised"}) =>
        /\ rc = 0
        /\ \A i \in 1..NumConfigs : Commented(i) /\ (HadActive(i) => HasBackupOf(i))
        /\ ~(Exists(fs, Source) /\ fs[Source] = "site")
        /\ Exists(fs, archive_target) /\ fs[archive_target] = "site"
        /\ (~Exists(pre.fs, Join(args.archive_dir, args.site))
               => archive_target = Join(args.archive_dir, args.site))

\* C4: choose_archive_target never returns a path that exists when it is
\* called: <archive_root>/<site> when that is free, else a timestamped path
\* that does not exist either.  (Stated for a site name that names a
\* directory of its own.)
C4_TargetDoesNotExist ==
    (PlainSite /\ pc = "check") =>
        /\ ~Exists(fs, archive_target)
        /\ IF Exists(fs, Join(args.archive_dir, args.site))
           THEN archive_target # Join(args.archive_dir, args.site)
           ELSE archive_target = Join(args.archive_dir, args.site)

\* C9: when main returns 2 the error list holds one error for every failed
\* precondition, each once: every missing config file, every existing config
\* file without an active match (apply mode, allow-missing off), and the
\* missing or already archived site directory; no check is skipped because an
\* earlier one failed.
C9_AllErrorsCollected ==
    (pc = "done" /\ rc = 2) =>
        /\ Range(blocking_errors) = FailedPreconditions
        /\ Len(blocking_errors) = Cardinality(FailedPreconditions)

\* a blocked run that reports a missing file, a file without a match and the
\* missing site directory together
C9_Witness ==
    /\ pc = "done" /\ rc = 2
    /\ \E i, j \in 1..NumConfigs :
          /\ i < j
          /\ Error("missing_config", i) \in Range(blocking_errors)
          /\ Error("no_active", j) \in Range(blocking_errors)
    /\ Error("site_missing", 0) \in Range(blocking_errors)

\* C10: in an apply run the move comes last: while a config file with active
\* matches is still unedited the site directory has not moved; the files are
\* edited in registry order; and a file is overwritten only once its backup
\* holds the old content.
C10_MoveIsLast ==
    /\ SiteMoved => \A i \in 1..NumConfigs : HadActive(i) => files[i] # pre.files[i]
    /\ \A i \in 1..NumConfigs :
          files[i] # pre.files[i] =>
             /\ HasBackupOf(i)
             /\ \A j \in 1..(i - 1) : HadActive(j) => files[j] # pre.files[j]

\* the site directory has moved after two config files were edited
C10_Witness ==
    /\ pc = "done" /\ rc = 0 /\ SiteMoved
    /\ \E i, j \in 1..NumConfigs : i < j /\ HadActive(i) /\ HadActive(j)
    /\ \A i \in 1..NumConfigs : HadActive(i) => files[i] # pre.files[i] /\ HasBackupOf(i)

----------------------------------------------------------------------------
(* Claims on normalize_tokens *)

\* the command line's site and tokens, stripped
StrippedInput ==
    LET all == <<args.site>> \o args.tokens
    IN [i \in 1..Len(all) |-> strip(all[i])]

FirstAt(list, x) == CHOOSE i \in 1..Len(list) : list[i] = x /\ \A j \in 1..(i - 1) : list[j] # x

IsBlank(text) == \A i \in 1..Len(text) : text[i] \in Whitespace

\* C5: for every site identifier and every list of extra tokens the result is
\* not empty, has the site identifier as its first element and holds no empty
\* string.
C5_TokensNonEmptySiteFirst ==
    pc = "normalized" =>
        /\ tokens # <<>>
        /\ tokens[1] = args.site
        /\ <<>> \notin Range(tokens)

\* C6: the result has no duplicates, keeps the input's tokens (stripped) in the
\* order of their first occurrence, drops the empty and the blank ones, and
\* normalizing it again (first element as site, rest as extras) gives it back.
C6_NormalizeIdempotentOrdered ==
    /\ pc = "normalized" =>
          /\ \A i, j \in 1..Len(tokens) : tokens[i] = tokens[j] => i = j
          /\ Range(tokens) = {t \in Range(StrippedInput) : t # <<>>}
          /\ \A i \in 1..Len(tokens) : ~IsBlank(tokens[i])
          /\ \A i, j \in 1..Len(tokens) :
                i < j => FirstAt(StrippedInput, tokens[i]) < FirstAt(StrippedInput, tokens[j])
    /\ pc = "renormalized" => tokens = pre

\* the site given again as an extra token, padded with whitespace, collapses
\* with it; the result, of two tokens, has been normalized again
C6_Witness ==
    /\ pc = "renormalized"
    /\ Len(pre) = 2
    /\ \E i \in 1..Len(args.tokens) :
          args.tokens[i] # args.site /\ strip(args.tokens[i]) = strip(args.site)

----------------------------------------------------------------------------
(* Claims on analyze_config_file and comment_matching_lines *)

\* line n of the scanned file, without its line feed
LineText(n) == rstrip_newline(ReadLines(files[idx])[n])

HasToken(text) == \E t \in Range(tokens) : Contains(t, text)

\* the first character that is not whitespace is '#'
FirstVisibleIsHash(text) ==
    \E k \in 1..Len(text) : text[k] = "#" /\ \A j \in 1..(k - 1) : text[j] \in Whitespace

LineNumbers(matches) == {matches[i].line_number : i \in 1..Len(matches)}

Ascending(matches) ==
    \A i, j \in 1..Len(matches) : i < j => matches[i].line_number < matches[j].line_number

\* C7: every line is exactly one of active match, commented match, no match:
\* the two lists are disjoint, a line is in one of them iff it holds a token, in
\* the commented one iff moreover its first character that is not whitespace
\* is '#', and the two counts add up to the number of lines holding a token.
C7_ScanPartitionsLines ==
    pc = "comment1" =>
        LET found == config_analyses[1].analysis
            active == LineNumbers(found.active_matches)
            commented == LineNumbers(found.commented_matches)
            lines == 1..Len(ReadLines(files[idx]))
        IN /\ active \cap commented = {}
           /\ active \cup commented = {n \in lines : HasToken(LineText(n))}
           /\ commented = {n \in lines : HasToken(LineText(n)) /\ FirstVisibleIsHash(LineText(n))}
           /\ Len(found.active_matches) + Len(found.commented_matches)
                 = Cardinality({n \in lines : HasToken(LineText(n))})
           /\ Ascending(found.active_matches) /\ Ascending(found.commented_matches)
           /\ \A i \in 1..Len(found.active_matches) :
                 found.active_matches[i].line_text = LineText(found.active_matches[i].line_number)

\* a scan that finds an active match, a commented match behind leading
\* whitespace and a line without a match
C7_Witness ==
    /\ pc = "comment1"
    /\ config_analyses[1].analysis.active_matches # <<>>
    /\ \E i \in 1..Len(config_analyses[1].analysis.commented_matches) :
          config_analyses[1].analysis.commented_matches[i].line_text[1] = " "
    /\ \E n \in 1..Len(ReadLines(files[idx])) : ~HasToken(LineText(n))

====
